---- MODULE Spec2Model ----
(***************************************************************************)
(* Phoenix gadget API: the gadget lifecycle and its self-destruct          *)
(* handshake, as served by the Express handlers of gadgetController.js     *)
(* over the Prisma calls of services/database.js.                          *)
(*                                                                         *)
(* The store is the gadget table of prisma/schema.prisma: a function from  *)
(* row ids to records [name, status, decommissionedAt, confirmationCode,   *)
(* userId].  cuid() only has to be fresh, so ids are 1, 2, ...  The        *)
(* createdAt / updatedAt columns are never selected nor compared by any    *)
(* handler and are left out.  Every prisma call is one atomic statement;   *)
(* a handler that awaits two statements (confirmSelfDestruct) or loops     *)
(* over statements (createGadget) is split at each await, so that other    *)
(* requests interleave there.  What a handler answers is an operator of    *)
(* the table it ran on and of its inputs (<handler>Response): the HTTP     *)
(* status and the JSON body.                                               *)
(***************************************************************************)
EXTENDS Integers, Sequences, FiniteSets, TLC

VARIABLES gadgets, inflight, users, registering

vars == <<gadgets, inflight, users, registering>>

\* The variables of the registration route, which no gadget route touches.
authVars == <<users, registering>>

\* A nullable column or an optional request field: None for null / undefined,
\* Some(x) for the value x.
None == << >>

Some(x) == <<x>>

(***************************************************************************)
(* Bounds of the model.                                                    *)
(***************************************************************************)
\* Users holding a verified token (req.user.userId).
Users == {"u1", "u2"}

\* Requests that can be between two awaits at the same time.
Procs == {"p1", "p2"}

\* Latest reading of the wall clock (new Date()) the model distinguishes.
MaxTime == 1

\* The slots that serve confirmations: one confirmation at a time is
\* between its two awaits, while every other request interleaves with it.
ConfirmSlots == {"p1"}

\* Math.random() returns r / RandomDenominator for an r of RandomUnits.
RandomDenominator == 16

RandomUnits == {0, 15}

\* The two Math.random() results of one generateGadgetName() call.
NameDraws == {<<0, 0>>, <<15, 15>>}

\* Outcomes of crypto.randomBytes(6), as six bytes.
RandomBytes ==
  { <<102, 111, 111, 98, 97, 114>>,
    <<215, 109, 248, 105, 183, 29>>,
    <<251, 239, 190, 251, 239, 190>> }

(***************************************************************************)
(* utils/gadgetNameGenerator.js                                            *)
(***************************************************************************)
adjectives ==
  << "silent", "shadow", "ghost", "blazing", "crimson", "mighty",
     "phantom", "steel", "night", "frost", "vengeful", "stormy",
     "lone", "silver", "venomous", "arcane" >>

nouns ==
  << "falcon", "panther", "hawk", "blade", "dagger", "raven",
     "phantom", "vigil", "hound", "knight", "serpent", "phantasm",
     "warden", "prowler", "sting", "sentinel" >>

\* Math.floor(Math.random() * n) for Math.random() = r / RandomDenominator.
RandomIndex(r, n) == (r * n) \div RandomDenominator

\* generateGadgetName with the two words in the other order.
generateGadgetNameSwapped(r1, r2) ==
  "the-" \o nouns[RandomIndex(r2, Len(nouns)) + 1]
         \o "-" \o adjectives[RandomIndex(r1, Len(adjectives)) + 1]

\* generateGadgetName(): sequences are 1-based, JS arrays 0-based.
generateGadgetName(r1, r2) ==
  "the-" \o adjectives[RandomIndex(r1, Len(adjectives)) + 1]
         \o "-" \o nouns[RandomIndex(r2, Len(nouns)) + 1]

(***************************************************************************)
(* crypto.randomBytes(6).toString('base64').replace(/[^a-zA-Z]/g, '')      *)
(*       .slice(0, 6)                                                      *)
(***************************************************************************)
Base64Alphabet ==
  << "A", "B", "C", "D", "E", "F", "G", "H", "I", "J", "K", "L", "M",
     "N", "O", "P", "Q", "R", "S", "T", "U", "V", "W", "X", "Y", "Z",
     "a", "b", "c", "d", "e", "f", "g", "h", "i", "j", "k", "l", "m",
     "n", "o", "p", "q", "r", "s", "t", "u", "v", "w", "x", "y", "z",
     "0", "1", "2", "3", "4", "5", "6", "7", "8", "9", "+", "/" >>

\* The four sextets of three bytes.
Sextets(b1, b2, b3) ==
  << b1 \div 4,
     (b1 % 4) * 16 + b2 \div 16,
     (b2 % 16) * 4 + b3 \div 64,
     b3 % 64 >>

\* toString('base64') of six bytes: eight sextets, no padding.
Base64(bytes) ==
  Sextets(bytes[1], bytes[2], bytes[3]) \o Sextets(bytes[4], bytes[5], bytes[6])

\* [a-zA-Z] are the first 52 entries of the alphabet.
IsLetter(s) == s < 52

\* replace(/[^a-zA-Z]/g, '')
RECURSIVE LettersOnly(_)
LettersOnly(ss) ==
  IF ss = << >> THEN << >>
  ELSE IF IsLetter(Head(ss)) THEN <<Head(ss)>> \o LettersOnly(Tail(ss))
  ELSE LettersOnly(Tail(ss))

\* slice(0, 6)
CodeLength == 6

Slice(ss) == SubSeq(ss, 1, IF Len(ss) < CodeLength THEN Len(ss) ELSE CodeLength)

RECURSIVE Chars(_)
Chars(ss) ==
  IF ss = << >> THEN "" ELSE Base64Alphabet[Head(ss) + 1] \o Chars(Tail(ss))

generateConfirmationCode(bytes) == Chars(Slice(LettersOnly(Base64(bytes))))

(***************************************************************************)
(* Request inputs.                                                         *)
(***************************************************************************)
\* Values sent as the status parameter, with String.prototype.toLowerCase
\* and toUpperCase on them.
StatusInputs == {"available", "Deployed", "DESTROYED"}

toLowerCase(s) ==
  CASE s = "available" -> "available"
    [] s = "Deployed" -> "deployed"
    [] s = "DESTROYED" -> "destroyed"

toUpperCase(s) ==
  CASE s = "available" -> "AVAILABLE"
    [] s = "Deployed" -> "DEPLOYED"
    [] s = "DESTROYED" -> "DESTROYED"

\* Gadget ids a client may name: one per name the model can generate (the
\* table holds no more rows than names), and one more.
GadgetIds == 1..(Cardinality(NameDraws) + 1)

\* Codes the server can issue, and one it never issues.
IssuedCodes == {generateConfirmationCode(b) : b \in RandomBytes}

ClientCodes == IssuedCodes \cup {"ZZZZZZ"}

\* JavaScript truthiness of an optional string: !x holds for undefined and
\* for the empty string.
Falsy(x) == x = None \/ x = Some("")

(***************************************************************************)
(* The gadget table (prisma/schema.prisma, model gadget).                  *)
(***************************************************************************)
\* Column defaults of a new row: status AVAILABLE, the nullable columns null.
NewRow(name, userId) ==
  [ name |-> name, status |-> "AVAILABLE", decommissionedAt |-> None,
    confirmationCode |-> None, userId |-> userId ]

\* id String @id @default(cuid()): an id no row has.
NewId(store) == Cardinality(DOMAIN store) + 1

\* NameTaken of a table without the unique index on name.
NameTakenNever(store, name) == FALSE

\* name String @unique: the insert fails with P2002 when this holds.
NameTaken(store, name) == \E k \in DOMAIN store : store[k].name = name

\* FindOwned with where: { id } only.
FindById(store, userId, id) == id \in DOMAIN store

\* where: { userId: userId, id: gadgetId }
FindOwned(store, userId, id) ==
  id \in DOMAIN store /\ store[id].userId = userId

\* new Date(): a reading not earlier than any reading already stored.
Stamps(store) ==
  {t \in 0..MaxTime : \E k \in DOMAIN store : store[k].decommissionedAt = Some(t)}

ClockReadings(store) ==
  {t \in 0..MaxTime : \A s \in Stamps(store) : s <= t}

\* The response of a handler: res.status(status).json(body).
Respond(status, body) == [status |-> status, body |-> body]

Failure(message) == [success |-> FALSE, message |-> message]

(***************************************************************************)
(* State.                                                                  *)
(*   gadgets   the gadget table                                            *)
(*   inflight  per request slot, the call that is between two awaits       *)
(*   users        the User table                                           *)
(*   registering  per request slot, the createUser call that is between    *)
(*                its findUnique and its create                            *)
(***************************************************************************)
Idle == [op |-> "idle", userId |-> "", id |-> 0, code |-> "", i |-> 0]

RegIdle == [op |-> "idle", username |-> "", hashPassword |-> ""]

Init ==
  /\ gadgets = << >>
  /\ inflight = [p \in Procs |-> Idle]
  /\ users = << >>
  /\ registering = [p \in Procs |-> RegIdle]

(***************************************************************************)
(* POST /gadgets: createNewGadget -> createGadget                          *)
(***************************************************************************)
MAX_RETRIES == 5

InternalServerError == "Internal server error"

NameExhaustion == "Failed to generate unique gadget name after multiple attempts"

\* InsertGadget as an upsert on name: a collision hands the row to the caller.
InsertGadgetUpsert(store, name, userId) ==
  IF NameTaken(store, name)
  THEN <<[k \in DOMAIN store |->
            IF store[k].name = name THEN NewRow(name, userId) ELSE store[k]], FALSE>>
  ELSE <<store @@ (NewId(store) :> NewRow(name, userId)), TRUE>>

\* prisma.gadget.create({ data: { name, userId } }): the table after the
\* insert, and FALSE for P2002.
InsertGadget(store, name, userId) ==
  IF NameTaken(store, name) THEN <<store, FALSE>>
  ELSE <<store @@ (NewId(store) :> NewRow(name, userId)), TRUE>>

\* createGadgetResponse with the loop condition i <= MAX_RETRIES.
createGadgetResponseOneMore(store, userId, i, name) ==
  LET r == InsertGadget(store, name, userId)
  IN IF r[2]
     THEN Some(Respond(201, [success |-> TRUE,
                             message |-> "Gadget created successfully",
                             gadget |-> [id |-> NewId(store), name |-> name,
                                         status |-> r[1][NewId(store)].status]]))
     ELSE IF i + 1 < MAX_RETRIES + 1 THEN None
     ELSE Some(Respond(500, Failure(NameExhaustion)))

\* What createNewGadget answers when pass i (counted from 0) of the loop of
\* createGadget tries `name`: 201 with the selected columns of the new row,
\* 500 when this was the last pass and it collided, None while the loop
\* goes on.
createGadgetResponse(store, userId, i, name) ==
  LET r == InsertGadget(store, name, userId)
  IN IF r[2]
     THEN Some(Respond(201, [success |-> TRUE,
                             message |-> "Gadget created successfully",
                             gadget |-> [id |-> NewId(store), name |-> name,
                                         status |-> r[1][NewId(store)].status]]))
     ELSE IF i + 1 < MAX_RETRIES THEN None
     ELSE Some(Respond(500, Failure(NameExhaustion)))

\* One pass of the for loop of createGadget.
CreateAttempt(p, userId, i, name) ==
  /\ gadgets' = InsertGadget(gadgets, name, userId)[1]
  /\ inflight' = [inflight EXCEPT ![p] =
       IF createGadgetResponse(gadgets, userId, i, name) # None THEN Idle
       ELSE [op |-> "createGadget", userId |-> userId, id |-> 0,
             code |-> "", i |-> i + 1]]

\* Creations between two inserts.
Creating == {p \in Procs : inflight[p].op = "createGadget"}

\* A request arrives and makes its first insert.
createNewGadget(p, userId, draw) ==
  /\ inflight[p] = Idle
  /\ CreateAttempt(p, userId, 0, generateGadgetName(draw[1], draw[2]))

\* The loop goes on after a collision.
createGadget(p, draw) ==
  /\ inflight[p].op = "createGadget"
  /\ CreateAttempt(p, inflight[p].userId, inflight[p].i,
                   generateGadgetName(draw[1], draw[2]))

(***************************************************************************)
(* GET /gadgets: getAllGadgets -> getGadgets                               *)
(***************************************************************************)
\* The ids of S in increasing order (the order rows were inserted in).
RECURSIVE Ascending(_)
Ascending(S) ==
  IF S = {} THEN << >>
  ELSE LET m == CHOOSE x \in S : \A y \in S : x <= y
       IN <<m>> \o Ascending(S \ {m})

\* getGadgets whose 'ALL' selects every status.
getGadgetsEveryStatus(store, type, userId) ==
  Ascending({k \in DOMAIN store :
               /\ store[k].userId = userId
               /\ type # "ALL" => store[k].status = type})

\* findMany where userId and (status = type, or, for 'ALL', status in
\* ['AVAILABLE', 'DEPLOYED']): the ids of the selected rows.
getGadgets(store, type, userId) ==
  Ascending({k \in DOMAIN store :
               /\ store[k].userId = userId
               /\ IF type # "ALL" THEN store[k].status = type
                  ELSE store[k].status \in {"AVAILABLE", "DEPLOYED"}})

\* `${gadget.name} - ${Math.floor(Math.random() * 100) + 1}% success probability`
DisplayLine(name, r) ==
  name \o " - " \o ToString(RandomIndex(r, 100) + 1) \o "% success probability"

\* The status parameter selects one status only when it is present and
\* allowed; every other value falls through to the listing of 'ALL'.
ListType(status) ==
  IF ~Falsy(status) /\ toLowerCase(status[1]) \in {"available", "deployed"}
  THEN toUpperCase(status[1]) ELSE "ALL"

\* rs[k] is the Math.random() result for the k-th listed gadget.
getAllGadgetsResponse(store, userId, status, rs) ==
  LET type == ListType(status)
      rows == getGadgets(store, type, userId)
  IN Respond(200,
       [success |-> TRUE,
        message |-> IF type = "ALL" THEN "All gadgets fetched successfully"
                    ELSE "Gadgets of type " \o type \o " fetched successfully",
        gadgets |-> [k \in 1..Len(rows) |-> DisplayLine(store[rows[k]].name, rs[k])]])

getAllGadgets(userId, status) == UNCHANGED <<gadgets, inflight>>

(***************************************************************************)
(* PATCH /gadgets: updateGadget -> updateGadgetStatus                      *)
(***************************************************************************)
allowedStatuses == {"available", "deployed"}

\* The select { id, name, status } of row id.
Selected(store, id) ==
  [id |-> id, name |-> store[id].name, status |-> store[id].status]

\* updateGadgetStatus clearing the confirmation code as well.
updateGadgetStatusClearsCode(store, userId, gadgetId, status) ==
  IF FindOwned(store, userId, gadgetId)
  THEN <<[store EXCEPT ![gadgetId].status = status,
                       ![gadgetId].confirmationCode = None], TRUE>>
  ELSE <<store, FALSE>>

\* updateGadgetStatus with where: { id } only.
updateGadgetStatusById(store, userId, gadgetId, status) ==
  IF gadgetId \in DOMAIN store
  THEN <<[store EXCEPT ![gadgetId].status = status], TRUE>>
  ELSE <<store, FALSE>>

\* prisma.gadget.update({ where: { userId, id }, data: { status } }): the
\* table after the update, and FALSE for P2025 (no such row).
updateGadgetStatus(store, userId, gadgetId, status) ==
  IF FindOwned(store, userId, gadgetId)
  THEN <<[store EXCEPT ![gadgetId].status = status], TRUE>>
  ELSE <<store, FALSE>>

\* UpdateValid without the check against allowedStatuses.
UpdateValidAnyStatus(gadgetId, status) ==
  /\ gadgetId # None
  /\ ~Falsy(status)

\* The request passes the two checks of updateGadget.
UpdateValid(gadgetId, status) ==
  /\ gadgetId # None
  /\ ~Falsy(status)
  /\ toLowerCase(status[1]) \in allowedStatuses

updateGadgetResponse(store, userId, gadgetId, status) ==
  IF gadgetId = None \/ Falsy(status)
  THEN Respond(400, Failure("Gadget ID and status are required"))
  ELSE IF toLowerCase(status[1]) \notin allowedStatuses
  THEN Respond(400, Failure("Invalid status. Allowed statuses are: available & deployed"))
  ELSE LET r == updateGadgetStatus(store, userId, gadgetId[1], toUpperCase(status[1]))
       IN IF r[2]
          THEN Respond(200, [success |-> TRUE,
                             message |-> "Gadget status updated successfully",
                             gadget |-> Selected(r[1], gadgetId[1])])
          ELSE Respond(500, Failure("Gadget not found or you do not have permission to update it"))

updateGadget(userId, gadgetId, status) ==
  /\ UNCHANGED inflight
  /\ gadgets' =
       IF UpdateValid(gadgetId, status)
       THEN updateGadgetStatus(gadgets, userId, gadgetId[1], toUpperCase(status[1]))[1]
       ELSE gadgets

(***************************************************************************)
(* DELETE /gadgets: deleteGadget -> decommissionGadget                     *)
(***************************************************************************)
\* decommissionGadget writing the status only.
decommissionGadgetStatusOnly(store, userId, gadgetId, t) ==
  IF FindOwned(store, userId, gadgetId)
  THEN <<[store EXCEPT ![gadgetId].status = "DECOMMISSIONED"], TRUE>>
  ELSE <<store, FALSE>>

\* update where { userId, id } data { decommissionedAt: new Date(),
\* status: 'DECOMMISSIONED' }, with the clock reading t.
decommissionGadget(store, userId, gadgetId, t) ==
  IF FindOwned(store, userId, gadgetId)
  THEN <<[store EXCEPT ![gadgetId].decommissionedAt = Some(t),
                       ![gadgetId].status = "DECOMMISSIONED"], TRUE>>
  ELSE <<store, FALSE>>

deleteGadgetResponse(store, userId, gadgetId, t) ==
  IF gadgetId = None
  THEN Respond(400, Failure("Gadget ID is required"))
  ELSE LET r == decommissionGadget(store, userId, gadgetId[1], t)
       IN IF r[2]
          THEN Respond(200, [success |-> TRUE,
                             message |-> "Gadget deleted successfully",
                             gadget |-> Selected(r[1], gadgetId[1])])
          ELSE Respond(500, Failure("Gadget not found or you do not have permission to delete it"))

deleteGadget(userId, gadgetId, t) ==
  /\ UNCHANGED inflight
  /\ gadgets' =
       IF gadgetId = None THEN gadgets
       ELSE decommissionGadget(gadgets, userId, gadgetId[1], t)[1]

(***************************************************************************)
(* POST /gadgets/:id/self-destruct: selfDestructGadget                     *)
(*   -> initiateSelfDestruct when the body carries no confirmCode          *)
(*   -> confirmSelfDestruct otherwise                                      *)
(***************************************************************************)
NotFoundSelfDestruct ==
  "Gadget not found or you do not have permission to self-destruct it"

\* initiateSelfDestruct storing a code only on a gadget that has none.
initiateSelfDestructOnce(store, userId, gadgetId, bytes) ==
  IF FindOwned(store, userId, gadgetId)
  THEN <<[store EXCEPT ![gadgetId].confirmationCode =
            IF @ = None THEN Some(generateConfirmationCode(bytes)) ELSE None], TRUE>>
  ELSE <<store, FALSE>>

\* initiateSelfDestruct marking the gadget DESTROYED at once.
initiateSelfDestructMarks(store, userId, gadgetId, bytes) ==
  IF FindOwned(store, userId, gadgetId)
  THEN <<[store EXCEPT ![gadgetId].confirmationCode =
                          Some(generateConfirmationCode(bytes)),
                       ![gadgetId].status = "DESTROYED"], TRUE>>
  ELSE <<store, FALSE>>

\* update where { userId, id } data { confirmationCode: <generated> }: the
\* table after the update, and FALSE for P2025.
initiateSelfDestruct(store, userId, gadgetId, bytes) ==
  IF FindOwned(store, userId, gadgetId)
  THEN <<[store EXCEPT ![gadgetId].confirmationCode =
                          Some(generateConfirmationCode(bytes))], TRUE>>
  ELSE <<store, FALSE>>

\* The answer of the branch if (!confirmCode): confirmCode is the selected
\* confirmationCode column of the updated row.
initiateResponse(store, userId, id, bytes) ==
  LET r == initiateSelfDestruct(store, userId, id, bytes)
  IN IF r[2]
     THEN Respond(200,
            [success |-> TRUE,
             message |-> "Hit the endpoint again with confirm code to self-destruct the gadget.",
             confirmCode |-> r[1][id].confirmationCode[1]])
     ELSE Respond(500, Failure(NotFoundSelfDestruct))

\* The branch if (!confirmCode) of selfDestructGadget.
selfDestructInitiate(userId, id, confirmCode, bytes) ==
  /\ Falsy(confirmCode)
  /\ UNCHANGED inflight
  /\ gadgets' = initiateSelfDestruct(gadgets, userId, id, bytes)[1]

\* ConfirmThrows accepting every code the server has ever issued, as long as
\* the gadget holds one.
ConfirmThrowsAcceptsIssued(store, userId, gadgetId, confirmationCode) ==
  IF ~FindOwned(store, userId, gadgetId) THEN Some(NotFoundSelfDestruct)
  ELSE IF store[gadgetId].confirmationCode = None \/ confirmationCode \notin IssuedCodes
  THEN Some("Invalid confirmation code")
  ELSE None

\* ConfirmThrows comparing the codes only when the gadget holds one.
ConfirmThrowsNullMatches(store, userId, gadgetId, confirmationCode) ==
  IF ~FindOwned(store, userId, gadgetId) THEN Some(NotFoundSelfDestruct)
  ELSE IF /\ store[gadgetId].confirmationCode # None
          /\ store[gadgetId].confirmationCode # Some(confirmationCode)
  THEN Some("Invalid confirmation code")
  ELSE None

\* ConfirmThrows without the comparison of the codes.
ConfirmThrowsUnchecked(store, userId, gadgetId, confirmationCode) ==
  IF ~FindOwned(store, userId, gadgetId) THEN Some(NotFoundSelfDestruct)
  ELSE None

\* What the try block of confirmSelfDestruct throws before its update: None
\* when the row is found and gadget.confirmationCode !== confirmationCode is
\* false.
ConfirmThrows(store, userId, gadgetId, confirmationCode) ==
  IF ~FindOwned(store, userId, gadgetId) THEN Some(NotFoundSelfDestruct)
  ELSE IF store[gadgetId].confirmationCode # Some(confirmationCode)
  THEN Some("Invalid confirmation code")
  ELSE None

\* catch (error) { console.error(...); throw new Error("Internal server error") }
\* around the whole body of confirmSelfDestruct: the message the handler sees
\* for the error thrown inside.
ConfirmCatch(message) == InternalServerError

\* The answer of the else branch when confirmSelfDestruct throws before its
\* update; None when it goes on to the update.
confirmFindResponse(store, userId, id, confirmCode) ==
  LET thrown == ConfirmThrows(store, userId, id, confirmCode)
  IN IF thrown = None THEN None
     ELSE Some(Respond(500, Failure(ConfirmCatch(thrown[1]))))

\* Confirmations between findUnique and update.
Confirming == {p \in Procs : inflight[p].op = "confirmSelfDestruct"}

\* The else branch of selfDestructGadget up to the second await of
\* confirmSelfDestruct: findUnique and the two checks.
selfDestructConfirm(p, userId, id, confirmCode) ==
  /\ ~Falsy(confirmCode)
  /\ inflight[p] = Idle
  /\ UNCHANGED gadgets
  /\ inflight' =
       IF confirmFindResponse(gadgets, userId, id, confirmCode[1]) # None
       THEN inflight
       ELSE [inflight EXCEPT ![p] =
               [op |-> "confirmSelfDestruct", userId |-> userId, id |-> id,
                code |-> confirmCode[1], i |-> 0]]

\* DestroyWrite renaming the gadget it destroys.
DestroyWriteRenames(store, userId, gadgetId) ==
  IF FindOwned(store, userId, gadgetId)
  THEN <<[store EXCEPT ![gadgetId].status = "DESTROYED",
                       ![gadgetId].confirmationCode = None,
                       ![gadgetId].name = "destroyed"], TRUE>>
  ELSE <<store, FALSE>>

\* DestroyWrite leaving the confirmation code in place.
DestroyWriteKeepsCode(store, userId, gadgetId) ==
  IF FindOwned(store, userId, gadgetId)
  THEN <<[store EXCEPT ![gadgetId].status = "DESTROYED"], TRUE>>
  ELSE <<store, FALSE>>

\* update where { userId, id } data { status: 'DESTROYED',
\* confirmationCode: null }: the table after the update, and FALSE for P2025.
DestroyWrite(store, userId, gadgetId) ==
  IF FindOwned(store, userId, gadgetId)
  THEN <<[store EXCEPT ![gadgetId].status = "DESTROYED",
                       ![gadgetId].confirmationCode = None], TRUE>>
  ELSE <<store, FALSE>>

\* The answer once the update of confirmSelfDestruct has run.
confirmUpdateResponse(store, userId, id) ==
  LET r == DestroyWrite(store, userId, id)
  IN IF r[2]
     THEN Respond(200, [success |-> TRUE,
                        message |-> "Gadget self-destructed successfully",
                        gadget |-> [id |-> id, name |-> r[1][id].name]])
     ELSE Respond(500, Failure(ConfirmCatch("P2025")))

\* The rest of confirmSelfDestruct and of the handler.
confirmSelfDestruct(p) ==
  /\ inflight[p].op = "confirmSelfDestruct"
  /\ inflight' = [inflight EXCEPT ![p] = Idle]
  /\ gadgets' = DestroyWrite(gadgets, inflight[p].userId, inflight[p].id)[1]

(***************************************************************************)
(* The server: any authenticated request at any time.                      *)
(***************************************************************************)
OptionalIds == {None} \cup {Some(g) : g \in GadgetIds}

OptionalStatus == {None} \cup {Some(s) : s \in StatusInputs}

OptionalCodes == {None} \cup {Some(c) : c \in ClientCodes}

\* Next admits a creation while the names the model draws from are not all
\* taken or claimed by a creation under way, so that a creation is between
\* two inserts only while the table is small; NextCreate admits every
\* creation and leaves the other routes out.
Room ==
  Cardinality(DOMAIN gadgets) + Cardinality(Creating) < Cardinality(NameDraws)

Next ==
  \/ \E p \in Procs, u \in Users, d \in NameDraws :
       Room /\ createNewGadget(p, u, d) /\ UNCHANGED authVars
  \/ \E p \in Procs, d \in NameDraws : createGadget(p, d) /\ UNCHANGED authVars
  \/ \E u \in Users, s \in OptionalStatus : getAllGadgets(u, s) /\ UNCHANGED authVars
  \/ \E u \in Users, g \in OptionalIds, s \in OptionalStatus :
       updateGadget(u, g, s) /\ UNCHANGED authVars
  \/ \E u \in Users, g \in OptionalIds, t \in ClockReadings(gadgets) :
       deleteGadget(u, g, t) /\ UNCHANGED authVars
  \/ \E u \in Users, g \in GadgetIds, c \in OptionalCodes, b \in RandomBytes :
       selfDestructInitiate(u, g, c, b) /\ UNCHANGED authVars
  \/ \E p \in ConfirmSlots, u \in Users, g \in GadgetIds, c \in OptionalCodes :
       selfDestructConfirm(p, u, g, c) /\ UNCHANGED authVars
  \/ \E p \in Procs : confirmSelfDestruct(p) /\ UNCHANGED authVars

Spec == Init /\ [][Next]_vars

NextCreate ==
  \/ \E p \in Procs, u \in Users, d \in NameDraws : createNewGadget(p, u, d) /\ UNCHANGED authVars
  \/ \E p \in Procs, d \in NameDraws : createGadget(p, d) /\ UNCHANGED authVars

SpecCreate == Init /\ [][NextCreate]_vars

(***************************************************************************)
(* Properties of the self-destruct confirmation.                           *)
(***************************************************************************)
\* The codes a request can carry into confirmSelfDestruct.
TruthyCodes == {c \in ClientCodes : ~Falsy(Some(c))}

\* The rows of the table other than g.
Without(store, g) == [k \in DOMAIN store \ {g} |-> store[k]]

\* C1: when the owner's confirmation carries the code stored on the gadget,
\* confirmSelfDestruct passes its checks, and its update answers 200 and
\* leaves the gadget DESTROYED with confirmationCode null, both written by
\* the one update: no step of a confirmation leaves the gadget it destroyed
\* with a code.
C1_MatchedConfirmDestroys ==
  /\ [](\A u \in Users, g \in DOMAIN gadgets :
          (FindOwned(gadgets, u, g) /\ gadgets[g].confirmationCode # None)
            => /\ ConfirmThrows(gadgets, u, g, gadgets[g].confirmationCode[1]) = None
               /\ confirmFindResponse(gadgets, u, g,
                                      gadgets[g].confirmationCode[1]) = None)
  /\ [][\A p \in Procs :
          (inflight[p].op = "confirmSelfDestruct" /\ confirmSelfDestruct(p))
            => /\ confirmUpdateResponse(gadgets, inflight[p].userId,
                                        inflight[p].id).status = 200
               /\ gadgets'[inflight[p].id].status = "DESTROYED"
               /\ gadgets'[inflight[p].id].confirmationCode = None]_vars

\* A confirmation has destroyed a gadget.
C1_Witness ==
  \E g \in DOMAIN gadgets :
    gadgets[g].status = "DESTROYED" /\ gadgets[g].confirmationCode = None

\* C2: a confirmation by the owner with a code other than the stored one
\* (the stored one may be null) is answered with an error and leaves the
\* table, hence every field of the gadget, unchanged: only a confirmation
\* with the stored code gets as far as the update.
C2_MismatchedConfirmChangesNothing ==
  /\ [](\A u \in Users, g \in DOMAIN gadgets, c \in ClientCodes :
          (FindOwned(gadgets, u, g) /\ gadgets[g].confirmationCode # Some(c))
            => /\ confirmFindResponse(gadgets, u, g, c) # None
               /\ confirmFindResponse(gadgets, u, g, c)[1].status = 500
               /\ ~confirmFindResponse(gadgets, u, g, c)[1].body.success)
  /\ [][\A p \in Procs :
          (inflight[p] = Idle /\ inflight'[p].op = "confirmSelfDestruct")
            => /\ gadgets' = gadgets
               /\ FindOwned(gadgets, inflight'[p].userId, inflight'[p].id)
               /\ gadgets[inflight'[p].id].confirmationCode
                    = Some(inflight'[p].code)]_vars

\* A gadget holds a code other than some code a client can send, is not
\* destroyed, and no confirmation is under way.
C2_Witness ==
  \E g \in DOMAIN gadgets :
    /\ gadgets[g].confirmationCode = Some("abcd")
    /\ gadgets[g].status = "DEPLOYED"
    /\ \A p \in Procs : inflight[p] = Idle

\* C3: the answers of a confirmation tell a code mismatch from a gadget
\* that is not found: the mismatch is reported neither with the not-found
\* answer nor as the generic internal error.
C3_MismatchIsDistinguished ==
  \A u \in Users, g \in DOMAIN gadgets, c \in TruthyCodes :
    (FindOwned(gadgets, u, g) /\ gadgets[g].confirmationCode # Some(c))
      => LET mismatch == confirmFindResponse(gadgets, u, g, c)[1]
             notFound == confirmFindResponse(gadgets, u, NewId(gadgets), c)[1]
         IN /\ mismatch # notFound
            /\ mismatch.body.message # InternalServerError
            /\ mismatch.body.message # NotFoundSelfDestruct

(***************************************************************************)
(* Ownership.                                                              *)
(***************************************************************************)
\* C4: for update-status, decommission, initiate and confirm, what a user
\* is answered about a gadget of another user is what the user is answered
\* when the table is the same but for that gadget, which is not there.
C4_NotOwnedLooksNotFound ==
  \A u \in Users, g \in DOMAIN gadgets :
    gadgets[g].userId # u
      => LET absent == Without(gadgets, g)
         IN /\ \A s \in OptionalStatus :
                 updateGadgetResponse(gadgets, u, Some(g), s)
                   = updateGadgetResponse(absent, u, Some(g), s)
            /\ \A t \in 0..MaxTime :
                 deleteGadgetResponse(gadgets, u, Some(g), t)
                   = deleteGadgetResponse(absent, u, Some(g), t)
            /\ \A b \in RandomBytes :
                 initiateResponse(gadgets, u, g, b)
                   = initiateResponse(absent, u, g, b)
            /\ \A c \in TruthyCodes :
                 /\ confirmFindResponse(gadgets, u, g, c) # None
                 /\ confirmFindResponse(gadgets, u, g, c)
                      = confirmFindResponse(absent, u, g, c)

\* Each user owns a gadget, and the gadgets differ in every mutable field.
C4_Witness ==
  \E g, h \in DOMAIN gadgets :
    /\ gadgets[g].userId = "u1" /\ gadgets[h].userId = "u2"
    /\ gadgets[g].status = "DEPLOYED" /\ gadgets[h].status = "DECOMMISSIONED"
    /\ gadgets[g].confirmationCode # None /\ gadgets[h].confirmationCode = None

\* A step of a request made with the identity v.
StepBy(v) ==
  \/ \E p \in Procs, d \in NameDraws : createNewGadget(p, v, d)
  \/ \E p \in Procs, d \in NameDraws :
       inflight[p].userId = v /\ createGadget(p, d)
  \/ \E g \in OptionalIds, s \in OptionalStatus : updateGadget(v, g, s)
  \/ \E g \in OptionalIds, t \in ClockReadings(gadgets) : deleteGadget(v, g, t)
  \/ \E g \in GadgetIds, b \in RandomBytes : selfDestructInitiate(v, g, None, b)
  \/ \E p \in Procs, g \in GadgetIds, c \in OptionalCodes :
       selfDestructConfirm(p, v, g, c)
  \/ \E p \in Procs : inflight[p].userId = v /\ confirmSelfDestruct(p)

\* C5: no step of a request made with the identity v changes or removes a
\* gadget owned by another user, and every line of a listing answered to v
\* displays a gadget v owns.
C5_OwnerScoped ==
  /\ [](\A v \in Users, s \in OptionalStatus :
          LET rows == getGadgets(gadgets, ListType(s), v)
          IN \A rs \in [1..Len(rows) -> RandomUnits] :
               LET lines == getAllGadgetsResponse(gadgets, v, s, rs).body.gadgets
               IN \A i \in 1..Len(lines) :
                    \E k \in DOMAIN gadgets, r \in RandomUnits :
                      /\ gadgets[k].userId = v
                      /\ lines[i] = DisplayLine(gadgets[k].name, r))
  /\ [][\A k \in DOMAIN gadgets :
          (k \notin DOMAIN gadgets' \/ gadgets'[k] # gadgets[k])
            => \A v \in Users \ {gadgets[k].userId} : ~StepBy(v)]_vars

\* Both users own a gadget; one gadget has been through update-status and
\* initiate, the other through decommission.
C5_Witness ==
  \E g, h \in DOMAIN gadgets :
    /\ gadgets[g].userId = "u1" /\ gadgets[h].userId = "u2"
    /\ gadgets[g].status = "DEPLOYED" /\ gadgets[g].confirmationCode # None
    /\ gadgets[h].status = "DECOMMISSIONED" /\ gadgets[h].decommissionedAt # None

(***************************************************************************)
(* Properties of initiateSelfDestruct.                                     *)
(***************************************************************************)
\* C6: the code a successful initiateSelfDestruct stores on the gadget, which
\* is the code it returns, has exactly 6 characters and is never empty.
C6_CodeHasSixCharacters ==
  \A g \in DOMAIN gadgets :
    gadgets[g].confirmationCode # None
      => /\ Len(gadgets[g].confirmationCode[1]) = 6
         /\ gadgets[g].confirmationCode[1] # ""

\* C7: a successful initiateSelfDestruct on g changes nothing but the
\* confirmationCode of g, which becomes the code in the answer: status,
\* decommissionedAt, name and owner of g and every other gadget stay.
C7_InitiateChangesOnlyCode ==
  [][\A g \in DOMAIN gadgets :
       (g \in DOMAIN gadgets' /\ gadgets'[g] # gadgets[g])
         => \A u \in Users, b \in RandomBytes :
              (/\ selfDestructInitiate(u, g, None, b)
               /\ initiateResponse(gadgets, u, g, b).status = 200)
                => /\ gadgets' =
                        [gadgets EXCEPT ![g].confirmationCode =
                           Some(initiateResponse(gadgets, u, g, b).body.confirmCode)]
                   /\ gadgets'[g].status = gadgets[g].status
                   /\ gadgets'[g].decommissionedAt = gadgets[g].decommissionedAt
                   /\ \A k \in DOMAIN gadgets \ {g} : gadgets'[k] = gadgets[k]
                   /\ inflight' = inflight]_vars

\* A decommissioned gadget has had a self-destruct initiated and is still
\* DECOMMISSIONED with its timestamp; the other gadget is as it was created.
C7_Witness ==
  \E g, h \in DOMAIN gadgets :
    /\ gadgets[g].confirmationCode = Some("ZmvYmF")
    /\ gadgets[g].status = "DECOMMISSIONED"
    /\ gadgets[g].decommissionedAt = Some(1)
    /\ gadgets[h] = NewRow(gadgets[h].name, gadgets[h].userId)

(***************************************************************************)
(* Properties of createGadget.                                             *)
(***************************************************************************)
\* the-<adjective>-<noun> over the two lists.
NamePattern ==
  {"the-" \o adjectives[a] \o "-" \o nouns[n] :
     a \in DOMAIN adjectives, n \in DOMAIN nouns}

\* The pass of the loop the creation in slot p makes next.
Pass(p) == IF inflight[p].op = "createGadget" THEN inflight[p].i ELSE 0

\* Slot p makes a pass of createGadget for userId with the draw d.
CreateStep(p, userId, d) ==
  \/ createNewGadget(p, userId, d)
  \/ inflight[p].op = "createGadget" /\ inflight[p].userId = userId
       /\ createGadget(p, d)

\* C8: a creation answered 201 has added exactly the gadget in its answer:
\* a new row owned by the caller with status AVAILABLE, confirmationCode and
\* decommissionedAt null, and a name the-<adjective>-<noun> with the words
\* taken from the two lists of 16.
C8_CreatedGadgetShape ==
  [][\A p \in Procs :
       (DOMAIN gadgets' # DOMAIN gadgets /\ inflight'[p] = Idle)
         => \A u \in Users, d \in NameDraws :
              CreateStep(p, u, d)
                => LET name == generateGadgetName(d[1], d[2])
                       resp == createGadgetResponse(gadgets, u, Pass(p), name)
                   IN /\ resp # None
                      /\ resp[1].status = 201
                      /\ resp[1].body.gadget.id \notin DOMAIN gadgets
                      /\ resp[1].body.gadget.status = "AVAILABLE"
                      /\ resp[1].body.gadget.name \in NamePattern
                      /\ Len(adjectives) = 16 /\ Len(nouns) = 16
                      /\ gadgets' = gadgets @@
                           (resp[1].body.gadget.id :>
                              [name |-> resp[1].body.gadget.name,
                               status |-> "AVAILABLE",
                               decommissionedAt |-> None,
                               confirmationCode |-> None,
                               userId |-> u])]_vars

\* Both users have created a gadget.
C8_Witness ==
  \E g, h \in DOMAIN gadgets :
    /\ gadgets[g] = NewRow("the-silent-falcon", "u1")
    /\ gadgets[h] = NewRow("the-arcane-sentinel", "u2")

\* C9: a creation makes at most 5 inserts: it is answered 201 at the first
\* pass whose name is not taken, goes on to another pass after a collision
\* in passes 1 to 4, and is answered with the name-exhaustion error when
\* pass 5 collides, never earlier.
C9_AtMostFiveAttempts ==
  /\ [](\A p \in Procs :
          inflight[p].op = "createGadget" => inflight[p].i \in 1..4)
  /\ [][\A p \in Procs, u \in Users, d \in NameDraws :
          CreateStep(p, u, d)
            => LET name == generateGadgetName(d[1], d[2])
                   i == Pass(p)
                   resp == createGadgetResponse(gadgets, u, i, name)
                   taken == \E k \in DOMAIN gadgets : gadgets[k].name = name
               IN /\ ~taken
                      => /\ resp # None /\ resp[1].status = 201
                         /\ inflight'[p] = Idle
                         /\ Cardinality(DOMAIN gadgets')
                              = Cardinality(DOMAIN gadgets) + 1
                  /\ (taken /\ i + 1 < 5)
                      => /\ resp = None
                         /\ inflight'[p].op = "createGadget"
                         /\ inflight'[p].i = i + 1
                         /\ gadgets' = gadgets
                  /\ (taken /\ i + 1 >= 5)
                      => /\ i + 1 = 5
                         /\ resp # None /\ resp[1].status = 500
                         /\ resp[1].body.message = NameExhaustion
                         /\ inflight'[p] = Idle
                         /\ gadgets' = gadgets]_vars

\* A creation has collided four times and is about to make its fifth insert.
C9_Witness ==
  \E p \in Procs : inflight[p].op = "createGadget" /\ inflight[p].i = 4

\* Two rows with the same name.
DuplicateName(store) ==
  \E g, h \in DOMAIN store : g # h /\ store[g].name = store[h].name

Rejected(gadgetId, status) ==
  \/ gadgetId = None
  \/ status = None
  \/ toLowerCase(status[1]) \notin {"available", "deployed"}

\* C11: an update-status request that lacks gadgetId or status, or whose
\* status is not available / deployed in any letter case, is answered 400
\* and its step leaves the table as it was; a step of an update that is
\* not rejected writes no status other than AVAILABLE or DEPLOYED.
C11_InvalidUpdateRejected ==
  /\ [](\A u \in Users, g \in OptionalIds, s \in OptionalStatus :
          Rejected(g, s) => updateGadgetResponse(gadgets, u, g, s).status = 400)
  /\ [][(gadgets' # gadgets /\ inflight' = inflight)
          => \A u \in Users, g \in OptionalIds, s \in OptionalStatus :
               updateGadget(u, g, s)
                 => /\ Rejected(g, s) => gadgets' = gadgets
                    /\ \A k \in DOMAIN gadgets :
                         gadgets'[k].status # gadgets[k].status
                           => gadgets'[k].status \in {"AVAILABLE", "DEPLOYED"}]_vars

\* An update has deployed a gadget, while another gadget, with a
\* self-destruct initiated, is AVAILABLE.
C11_Witness ==
  \E g, h \in DOMAIN gadgets :
    /\ gadgets[g].status = "DEPLOYED"
    /\ gadgets[h].status = "AVAILABLE" /\ gadgets[h].confirmationCode # None

(***************************************************************************)
(* Properties of decommissionGadget.                                       *)
(***************************************************************************)
\* C12: a decommission of a gadget by its owner is answered 200 and its one
\* step leaves the gadget with status DECOMMISSIONED and decommissionedAt the
\* clock reading of the call; no gadget is ever DECOMMISSIONED with
\* decommissionedAt null.
C12_DecommissionSetsBoth ==
  /\ [](\A g \in DOMAIN gadgets :
          gadgets[g].status = "DECOMMISSIONED" => gadgets[g].decommissionedAt # None)
  /\ [](\A u \in Users, g \in DOMAIN gadgets, t \in 0..MaxTime :
          FindOwned(gadgets, u, g)
            => deleteGadgetResponse(gadgets, u, Some(g), t).status = 200)
  /\ [][(gadgets' # gadgets /\ inflight' = inflight)
          => \A u \in Users, g \in DOMAIN gadgets, t \in 0..MaxTime :
               (FindOwned(gadgets, u, g) /\ deleteGadget(u, Some(g), t))
                 => /\ gadgets'[g].status = "DECOMMISSIONED"
                    /\ gadgets'[g].decommissionedAt = Some(t)]_vars

\* A gadget has been decommissioned at the first clock reading and nothing
\* else has happened to it.
C12_Witness ==
  \E g \in DOMAIN gadgets :
    /\ gadgets[g].status = "DECOMMISSIONED"
    /\ gadgets[g].decommissionedAt = Some(0)
    /\ gadgets[g].confirmationCode = None

(***************************************************************************)
(* Invariants of the gadget lifecycle.                                     *)
(***************************************************************************)
\* C13: in every reachable state, decommissionedAt of a gadget is non-null
\* exactly when its status is DECOMMISSIONED.
C13_DecommissionedAtIffDecommissioned ==
  \A g \in DOMAIN gadgets :
    gadgets[g].decommissionedAt # None <=> gadgets[g].status = "DECOMMISSIONED"

\* The owner of row g of the table.
Owner(store, g) == store[g].userId

\* C14: confirmationCode is non-null exactly while a self-destruct is in
\* progress.  A new gadget has it null; it turns from null to non-null only
\* in a successful initiate step of the owner; it turns from non-null to
\* null only in the update of a confirmation of the owner; and a successful
\* initiate always leaves it non-null, a successful confirm always null.
C14_CodeIffSelfDestructInProgress ==
  [][gadgets' # gadgets
       => \A g \in DOMAIN gadgets' :
            IF g \notin DOMAIN gadgets
            THEN gadgets'[g].confirmationCode = None
            ELSE LET before == gadgets[g].confirmationCode
                     after == gadgets'[g].confirmationCode
                     initiated ==
                       \E b \in RandomBytes :
                         selfDestructInitiate(Owner(gadgets, g), g, None, b)
                     confirmed ==
                       \E p \in Procs :
                         /\ inflight[p].op = "confirmSelfDestruct"
                         /\ inflight[p].id = g
                         /\ inflight[p].userId = Owner(gadgets, g)
                         /\ confirmSelfDestruct(p)
                 IN /\ (before = None /\ after # None) => initiated
                    /\ (before # None /\ after = None) => confirmed
                    /\ initiated => after # None
                    /\ confirmed => after = None]_vars

\* A gadget has a self-destruct in progress after an earlier one was
\* confirmed: it is DESTROYED and holds a code again.
C14_Witness ==
  \E g \in DOMAIN gadgets :
    /\ gadgets[g].status = "DESTROYED"
    /\ gadgets[g].confirmationCode = Some("ZmvYmF")

\* The statuses after which no mutation is meant to be permitted.
TerminalStatuses == {"DESTROYED", "DECOMMISSIONED"}

\* C15: terminal states are absorbing: no step changes any field of a gadget
\* whose status is DESTROYED or DECOMMISSIONED.
C15_TerminalStatesAbsorbing ==
  [][\A g \in DOMAIN gadgets :
       gadgets[g].status \in TerminalStatuses => gadgets'[g] = gadgets[g]]_vars

(***************************************************************************)
(* Properties of getAllGadgets.                                            *)
(***************************************************************************)
\* The gadgets of userId whose status is in the set statuses.
OwnedIn(store, userId, statuses) ==
  {k \in DOMAIN store : store[k].userId = userId /\ store[k].status \in statuses}

\* The lines of a listing display exactly the gadgets of S, one line each.
Displays(store, lines, S) ==
  /\ Len(lines) = Cardinality(S)
  /\ \A k \in S : \E i \in 1..Len(lines), r \in RandomUnits :
       lines[i] = DisplayLine(store[k].name, r)
  /\ \A i \in 1..Len(lines) : \E k \in S, r \in RandomUnits :
       lines[i] = DisplayLine(store[k].name, r)

\* C16: for every user and every value of the status parameter, a listing
\* with the parameter available or deployed in any letter case displays
\* exactly the user's gadgets in that status, a listing without the
\* parameter exactly the user's AVAILABLE and DEPLOYED gadgets, and no
\* listing displays a DESTROYED or DECOMMISSIONED gadget; a listing step
\* changes no gadget.
C16_ListingByStatus ==
  /\ [](\A u \in Users, s \in OptionalStatus :
          LET rows == getGadgets(gadgets, ListType(s), u)
          IN \A rs \in [1..Len(rows) -> RandomUnits] :
               LET resp == getAllGadgetsResponse(gadgets, u, s, rs)
                   lines == resp.body.gadgets
               IN /\ resp.status = 200
                  /\ (s # None /\ toLowerCase(s[1]) \in {"available", "deployed"})
                       => Displays(gadgets, lines,
                                   OwnedIn(gadgets, u, {toUpperCase(s[1])}))
                  /\ s = None
                       => Displays(gadgets, lines,
                                   OwnedIn(gadgets, u, {"AVAILABLE", "DEPLOYED"}))
                  /\ \A i \in 1..Len(lines), r \in RandomUnits :
                       \A k \in DOMAIN gadgets :
                         lines[i] = DisplayLine(gadgets[k].name, r)
                           => gadgets[k].status \notin TerminalStatuses)
  /\ [][\A u \in Users, s \in OptionalStatus :
          getAllGadgets(u, s) => gadgets' = gadgets]_vars

\* A user owns a DEPLOYED gadget and a DESTROYED one.
C16_Witness ==
  \E g, h \in DOMAIN gadgets :
    /\ gadgets[g].userId = gadgets[h].userId
    /\ gadgets[g].status = "DEPLOYED"
    /\ gadgets[h].status = "DESTROYED"

(***************************************************************************)
(* Properties of the self-destruct handshake.                              *)
(***************************************************************************)
\* C17: when an initiate of the owner replaces the stored code c1 of a
\* gadget by a different code c2, c2 is the code in its answer, and in the
\* state it leaves a confirmation of the owner with c1 is answered with an
\* error before any write, while one with c2 passes the checks and its
\* update answers 200 and leaves the gadget DESTROYED.
C17_LatestCodeWins ==
  [][(gadgets' # gadgets /\ inflight' = inflight)
       => \A g \in DOMAIN gadgets :
            LET c1 == gadgets[g].confirmationCode
                c2 == gadgets'[g].confirmationCode
                u == Owner(gadgets, g)
            IN (c1 # None /\ c2 # None /\ c1 # c2)
                 => /\ \E b \in RandomBytes :
                         /\ selfDestructInitiate(u, g, None, b)
                         /\ initiateResponse(gadgets, u, g, b).status = 200
                         /\ initiateResponse(gadgets, u, g, b).body.confirmCode = c2[1]
                    /\ confirmFindResponse(gadgets', u, g, c1[1]) # None
                    /\ confirmFindResponse(gadgets', u, g, c1[1])[1].status = 500
                    /\ confirmFindResponse(gadgets', u, g, c2[1]) = None
                    /\ confirmUpdateResponse(gadgets', u, g).status = 200
                    /\ DestroyWrite(gadgets', u, g)[1][g].status = "DESTROYED"]_vars

\* A confirmation that matched the code of the first initiate is under way
\* while the gadget holds the different code of a second initiate.
C17_Witness ==
  \E p \in Procs :
    /\ inflight[p].op = "confirmSelfDestruct"
    /\ inflight[p].id \in DOMAIN gadgets
    /\ gadgets[inflight[p].id].confirmationCode # None
    /\ gadgets[inflight[p].id].confirmationCode # Some(inflight[p].code)

\* C18: an issued code stays valid until consumed or overwritten.  The
\* stored code of a gadget changes only in an initiate step of its owner on
\* it or in the update of a confirmation of its owner on it, so update-status
\* and decommission steps, and steps on other gadgets, leave it in place; and
\* in every state, whatever the status of the gadget has become, a
\* confirmation of the owner with the stored code passes the checks and its
\* update answers 200 and leaves the gadget DESTROYED.
C18_CodeStaysValid ==
  /\ [](\A g \in DOMAIN gadgets :
          gadgets[g].confirmationCode # None
            => LET u == Owner(gadgets, g)
                   c == gadgets[g].confirmationCode[1]
               IN /\ confirmFindResponse(gadgets, u, g, c) = None
                  /\ confirmUpdateResponse(gadgets, u, g).status = 200
                  /\ DestroyWrite(gadgets, u, g)[1][g].status = "DESTROYED"
                  /\ \A s \in StatusInputs, t \in 0..MaxTime :
                       /\ updateGadgetStatus(gadgets, u, g, toUpperCase(s))[1][g]
                            .confirmationCode = Some(c)
                       /\ decommissionGadget(gadgets, u, g, t)[1][g]
                            .confirmationCode = Some(c))
  /\ [][gadgets' # gadgets
          => \A g \in DOMAIN gadgets :
               gadgets'[g].confirmationCode # gadgets[g].confirmationCode
                 => \/ \E b \in RandomBytes :
                         selfDestructInitiate(Owner(gadgets, g), g, None, b)
                    \/ \E p \in Procs :
                         /\ inflight[p].op = "confirmSelfDestruct"
                         /\ inflight[p].id = g
                         /\ inflight[p].userId = Owner(gadgets, g)
                         /\ confirmSelfDestruct(p)]_vars

\* A gadget holds a code and has since been decommissioned and then
\* deployed again.
C18_Witness ==
  \E g \in DOMAIN gadgets :
    /\ gadgets[g].confirmationCode = Some("ZmvYmF")
    /\ gadgets[g].decommissionedAt # None
    /\ gadgets[g].status = "DEPLOYED"

(***************************************************************************)
(* Concurrent confirmations.  NextRace lets a confirmation be between its  *)
(* findUnique and its update in every slot at once, and admits an initiate *)
(* only while no confirmation is under way, so that the code a             *)
(* confirmation has matched is never issued again before its update.       *)
(***************************************************************************)
NextRace ==
  \/ \E p \in Procs, u \in Users, d \in NameDraws :
       Room /\ createNewGadget(p, u, d) /\ UNCHANGED authVars
  \/ \E p \in Procs, d \in NameDraws : createGadget(p, d) /\ UNCHANGED authVars
  \/ \E u \in Users, g \in GadgetIds, c \in OptionalCodes, b \in RandomBytes :
       Confirming = {} /\ selfDestructInitiate(u, g, c, b) /\ UNCHANGED authVars
  \/ \E p \in Procs, u \in Users, g \in GadgetIds, c \in OptionalCodes :
       selfDestructConfirm(p, u, g, c) /\ UNCHANGED authVars
  \/ \E p \in Procs : confirmSelfDestruct(p) /\ UNCHANGED authVars

SpecRace == Init /\ [][NextRace]_vars

\* C19: a confirmation code is single-use: of the confirmSelfDestruct calls
\* that carry the code of one initiate, at most one succeeds, also when
\* they run concurrently.  With no initiate between the check and the update
\* of a confirmation, a call succeeds only while the code it carries is
\* still stored, that is, before another call has consumed it.
C19_CodeIsSingleUse ==
  [][\A p \in Procs :
       (/\ inflight[p].op = "confirmSelfDestruct"
        /\ confirmSelfDestruct(p)
        /\ confirmUpdateResponse(gadgets, inflight[p].userId,
                                 inflight[p].id).status = 200)
         => gadgets[inflight[p].id].confirmationCode
              = Some(inflight[p].code)]_vars

(***************************************************************************)
(* Repeated decommission.                                                  *)
(***************************************************************************)
\* C20: decommissionedAt is set exactly once: no step changes a
\* decommissionedAt that is non-null, so that a second decommission of a
\* gadget by its owner leaves status and decommissionedAt as the first
\* left them.
C20_DecommissionedAtSetOnce ==
  [][\A g \in DOMAIN gadgets :
       gadgets[g].decommissionedAt # None
         => gadgets'[g].decommissionedAt = gadgets[g].decommissionedAt]_vars

(***************************************************************************)
(* gadgetRouter.use(authMiddleware): every gadget route runs behind the    *)
(* middleware.  A token is what the auth cookie holds: nothing, a token    *)
(* signed by login for a user that has expired or not, or a token that     *)
(* jwt.verify rejects (bad signature, malformed) whatever userId it claims.*)
(***************************************************************************)
Tokens ==
  { [kind |-> "missing", userId |-> ""],
    [kind |-> "expired", userId |-> "u1"],
    [kind |-> "invalid", userId |-> "u2"] }
    \cup {[kind |-> "valid", userId |-> u] : u \in Users}

\* jwt.verify(token, process.env.JWT_SECRET): the decoded payload, or the
\* name of the error thrown.
jwtVerify(token) ==
  CASE token.kind = "valid" -> [ok |-> TRUE, userId |-> token.userId, name |-> ""]
    [] token.kind = "expired" -> [ok |-> FALSE, userId |-> "", name |-> "TokenExpiredError"]
    [] OTHER -> [ok |-> FALSE, userId |-> "", name |-> "JsonWebTokenError"]

\* authMiddleware trusting the payload of every token that is present.
authMiddlewareDecodeOnly(token) ==
  IF token.kind = "missing"
  THEN Some(Respond(401, Failure("Authentication token is missing")))
  ELSE None

\* authMiddleware: the response it sends, or None when it calls next().
authMiddleware(token) ==
  IF token.kind = "missing"
  THEN Some(Respond(401, Failure("Authentication token is missing")))
  ELSE LET decoded == jwtVerify(token)
       IN IF decoded.ok THEN None
          ELSE IF decoded.name = "TokenExpiredError"
          THEN Some(Respond(401, Failure("Authentication token has expired. Please login again.")))
          ELSE IF decoded.name = "JsonWebTokenError"
          THEN Some(Respond(401, Failure("Invalid authentication token. Please login again.")))
          ELSE Some(Respond(500, Failure("An error occurred during authentication. Please try again later.")))

\* A request to a gadget route with the cookie `token`: the middleware, then
\* the handler of the route with req.user of the token.
gadgetRouter(token) ==
  IF authMiddleware(token) # None THEN UNCHANGED vars
  ELSE LET userId == token.userId
       IN \/ \E p \in Procs, d \in NameDraws : Room /\ createNewGadget(p, userId, d)
          \/ \E s \in OptionalStatus : getAllGadgets(userId, s)
          \/ \E g \in OptionalIds, s \in OptionalStatus : updateGadget(userId, g, s)
          \/ \E g \in OptionalIds, t \in ClockReadings(gadgets) :
               deleteGadget(userId, g, t)
          \/ \E g \in GadgetIds, c \in OptionalCodes, b \in RandomBytes :
               selfDestructInitiate(userId, g, c, b)
          \/ \E p \in ConfirmSlots, g \in GadgetIds, c \in OptionalCodes :
               selfDestructConfirm(p, userId, g, c)

NextAuth ==
  \/ \E token \in Tokens : gadgetRouter(token) /\ UNCHANGED authVars
  \/ \E p \in Procs, d \in NameDraws : createGadget(p, d) /\ UNCHANGED authVars
  \/ \E p \in Procs : confirmSelfDestruct(p) /\ UNCHANGED authVars

SpecAuth == Init /\ [][NextAuth]_vars

\* The cookies the middleware is to turn away.
Unverified == {token \in Tokens : token.kind \in {"missing", "expired", "invalid"}}

\* C21: every gadget route is behind the middleware: a request whose token is
\* missing, expired or invalid is answered 401 and its step changes neither
\* the table nor any call in flight, and a request that does change
\* something carries a verified token and creates or changes only gadgets
\* of the user that token was signed for.
C21_RoutesAuthenticated ==
  /\ [](\A token \in Unverified :
          /\ authMiddleware(token) # None
          /\ authMiddleware(token)[1].status = 401)
  /\ [][vars' # vars
          => \A token \in Tokens :
               gadgetRouter(token)
                 => /\ token \notin Unverified
                    /\ \A k \in DOMAIN gadgets' :
                         (k \notin DOMAIN gadgets \/ gadgets'[k] # gadgets[k])
                           => gadgets'[k].userId = token.userId]_vars

\* Requests with verified tokens of both users have gone through: u1 has
\* deployed a gadget and u2 has destroyed one.
C21_Witness ==
  \E g, h \in DOMAIN gadgets :
    /\ gadgets[g].userId = "u1" /\ gadgets[g].status = "DEPLOYED"
    /\ gadgets[h].userId = "u2" /\ gadgets[h].status = "DESTROYED"

(***************************************************************************)
(* A confirmation interleaved with initiates.                              *)
(***************************************************************************)
\* C22: the update of a confirmation changes the gadget (marks it DESTROYED,
\* erases its code) only if the code stored at that moment is the code the
\* confirmation carries: a code that an initiate has overwritten since the
\* check destroys nothing, and the newer code is not erased.
C22_DestroyOnlyOnCurrentCode ==
  [][\A p \in Procs :
       (inflight[p].op = "confirmSelfDestruct" /\ confirmSelfDestruct(p))
         => LET g == inflight[p].id
            IN gadgets'[g] # gadgets[g]
                 => gadgets[g].confirmationCode = Some(inflight[p].code)]_vars

(***************************************************************************)
(* createGadget when the store fails.  prisma.gadget.create can throw an   *)
(* error other than P2002 (the store is unreachable, ...): the catch of    *)
(* createGadget then throws "Internal server error" and the loop ends.     *)
(***************************************************************************)
\* What createNewGadget answers when an insert throws an error other than
\* P2002.
createGadgetErrorResponse == Respond(500, Failure(InternalServerError))

\* The first insert of a request throws: nothing was written and no call
\* stays in flight.
createNewGadgetStoreError(p, userId) ==
  /\ inflight[p] = Idle
  /\ UNCHANGED <<gadgets, inflight>>

\* A later insert of the loop throws.
createGadgetStoreError(p) ==
  /\ inflight[p].op = "createGadget"
  /\ inflight' = [inflight EXCEPT ![p] = Idle]
  /\ UNCHANGED gadgets

NextCreateFault ==
  \/ \E p \in Procs, u \in Users, d \in NameDraws : createNewGadget(p, u, d) /\ UNCHANGED authVars
  \/ \E p \in Procs, d \in NameDraws : createGadget(p, d) /\ UNCHANGED authVars
  \/ \E p \in Procs, u \in Users : createNewGadgetStoreError(p, u) /\ UNCHANGED authVars
  \/ \E p \in Procs : createGadgetStoreError(p) /\ UNCHANGED authVars

SpecCreateFault == Init /\ [][NextCreateFault]_vars

\* C23: a pass of createGadget that inserts adds exactly one gadget, the one
\* in the 201 answer, and no pass changes or removes a gadget that exists; a
\* pass that collides, the fifth one included, and a pass whose insert
\* throws another error leave the table exactly as it was, so that a
\* creation that fails has persisted nothing.
C23_CreateAddsExactlyOne ==
  /\ [](createGadgetErrorResponse.status = 500)
  /\ [][vars' # vars
          => /\ \A k \in DOMAIN gadgets :
                  k \in DOMAIN gadgets' /\ gadgets'[k] = gadgets[k]
             /\ \A p \in Procs : createGadgetStoreError(p) => gadgets' = gadgets
             /\ \A p \in Procs, u \in Users, d \in NameDraws :
                  CreateStep(p, u, d)
                    => LET resp == createGadgetResponse(gadgets, u, Pass(p),
                                     generateGadgetName(d[1], d[2]))
                       IN IF resp # None /\ resp[1].status = 201
                          THEN /\ DOMAIN gadgets'
                                    = DOMAIN gadgets \cup {resp[1].body.gadget.id}
                               /\ resp[1].body.gadget.id \notin DOMAIN gadgets
                               /\ inflight'[p] = Idle
                          ELSE gadgets' = gadgets]_vars

\* Both names are taken and a creation has collided three times.
C23_Witness ==
  /\ Cardinality(DOMAIN gadgets) = 2
  /\ \E p \in Procs : inflight[p].op = "createGadget" /\ inflight[p].i = 3

(***************************************************************************)
(* Immutable fields.                                                       *)
(***************************************************************************)
\* C24: a gadget keeps its id, its name and its owner: every step leaves
\* every row of the table under the same id, with the same name and the same
\* userId.
C24_IdNameOwnerImmutable ==
  [][gadgets' # gadgets
       => \A k \in DOMAIN gadgets :
            /\ k \in DOMAIN gadgets'
            /\ gadgets'[k].name = gadgets[k].name
            /\ gadgets'[k].userId = gadgets[k].userId]_vars

\* A gadget has been through update-status, decommission, initiate and
\* confirm, and a self-destruct has been initiated on it again.
C24_Witness ==
  \E g \in DOMAIN gadgets :
    /\ gadgets[g] = [name |-> "the-arcane-sentinel", status |-> "DESTROYED",
                     decommissionedAt |-> Some(1), confirmationCode |-> Some("abcd"),
                     userId |-> "u2"]

(***************************************************************************)
(* How a gadget reaches DESTROYED and DECOMMISSIONED.                      *)
(***************************************************************************)
\* C25: a gadget turns DESTROYED only in the update of a confirmSelfDestruct
\* of its owner; such a call gets past its check only with the code stored
\* on the gadget at that moment, which is non-null and was stored by an
\* initiate of the owner (a code turns non-null in no other step); on a
\* gadget whose code is null no confirmation gets past the check; and a
\* gadget turns DECOMMISSIONED only in a decommission step of its owner.
C25_DestroyedOnlyByConfirm ==
  /\ [](\A g \in DOMAIN gadgets, c \in TruthyCodes :
          gadgets[g].confirmationCode = None
            => confirmFindResponse(gadgets, Owner(gadgets, g), g, c) # None)
  /\ [](\A p \in Procs :
          inflight[p].op = "confirmSelfDestruct"
            => /\ FindOwned(gadgets, inflight[p].userId, inflight[p].id)
               /\ inflight[p].code \in IssuedCodes)
  /\ [][vars' # vars
          => /\ \A g \in DOMAIN gadgets :
                  /\ (gadgets'[g].status = "DESTROYED" /\ gadgets[g].status # "DESTROYED")
                       => \E p \in Procs :
                            /\ inflight[p].op = "confirmSelfDestruct"
                            /\ inflight[p].id = g
                            /\ inflight[p].userId = Owner(gadgets, g)
                            /\ confirmSelfDestruct(p)
                  /\ (gadgets'[g].status = "DECOMMISSIONED"
                        /\ gadgets[g].status # "DECOMMISSIONED")
                       => \E t \in 0..MaxTime :
                            deleteGadget(Owner(gadgets, g), Some(g), t)
                  /\ (gadgets[g].confirmationCode = None
                        /\ gadgets'[g].confirmationCode # None)
                       => \E b \in RandomBytes :
                            selfDestructInitiate(Owner(gadgets, g), g, None, b)
             /\ \A p \in Procs :
                  (inflight[p] = Idle /\ inflight'[p].op = "confirmSelfDestruct")
                    => /\ inflight'[p].userId = Owner(gadgets, inflight'[p].id)
                       /\ gadgets[inflight'[p].id].confirmationCode
                            = Some(inflight'[p].code)]_vars

\* A user has destroyed one gadget and decommissioned another.
C25_Witness ==
  \E g, h \in DOMAIN gadgets :
    /\ gadgets[g].userId = gadgets[h].userId
    /\ gadgets[g].status = "DESTROYED" /\ gadgets[g].decommissionedAt = None
    /\ gadgets[h].status = "DECOMMISSIONED" /\ gadgets[h].confirmationCode = None

(***************************************************************************)
(* The handshake through the endpoint.                                     *)
(***************************************************************************)
\* C26: whatever code an initiate has stored on a gadget and returned, a
\* request of the owner to the self-destruct endpoint that carries that code
\* takes the confirm branch of selfDestructGadget (the code is not falsy),
\* passes the check of confirmSelfDestruct, and its update leaves the gadget
\* DESTROYED.
C26_HandshakeCompletes ==
  \A g \in DOMAIN gadgets :
    gadgets[g].confirmationCode # None
      => /\ ~Falsy(gadgets[g].confirmationCode)
         /\ confirmFindResponse(gadgets, Owner(gadgets, g), g,
                                gadgets[g].confirmationCode[1]) = None
         /\ DestroyWrite(gadgets, Owner(gadgets, g), g)[1][g].status = "DESTROYED"

(***************************************************************************)
(* POST /api/auth/register: register -> createUser                         *)
(***************************************************************************)
\* Values sent as username and as password.
Usernames == {"alice", "bob"}

Passwords == {"pw1", "pw2"}

OptionalUsernames == {None} \cup {Some(n) : n \in Usernames}

OptionalPasswords == {None} \cup {Some(w) : w \in Passwords}

\* bcrypt.hashSync(password, 10): a digest of the password, not the password.
hashSync(password) == "bcrypt(" \o password \o ")"

\* UsernameTaken of a table without the unique index on username.
UsernameTakenNever(table, username) == FALSE

\* username String @unique: the insert fails with P2002 when this holds.
UsernameTaken(table, username) ==
  \E k \in DOMAIN table : table[k].username = username

\* prisma.user.findUnique({ where: { username } }): TRUE when a row is found.
userPresent(table, username) ==
  \E k \in DOMAIN table : table[k].username = username

\* prisma.user.create({ data: { username, hashPassword } }): the table after
\* the insert, and FALSE for P2002.
InsertUser(table, username, hashPassword) ==
  IF UsernameTaken(table, username) THEN <<table, FALSE>>
  ELSE <<table @@ (Cardinality(DOMAIN table) + 1 :>
                     [username |-> username, hashPassword |-> hashPassword]), TRUE>>

\* What register answers before the insert of createUser: 400 for a missing
\* field, 500 when findUnique finds the username (the error thrown is
\* replaced by "Internal server error" in the catch of createUser); None
\* when createUser goes on to the insert.
registerFindResponse(table, username, password) ==
  IF Falsy(username) \/ Falsy(password)
  THEN Some(Respond(400, [error |-> "Username and password are required"]))
  ELSE IF userPresent(table, username[1])
  THEN Some(Respond(500, [success |-> FALSE, error |-> InternalServerError]))
  ELSE None

\* What register answers once the insert has run.
registerCreateResponse(table, username, hashPassword) ==
  IF InsertUser(table, username, hashPassword)[2]
  THEN Respond(201, [success |-> TRUE,
                     message |-> "User registered successfully. Please login to continue"])
  ELSE Respond(500, [success |-> FALSE, error |-> InternalServerError])

\* register up to the second await of createUser: the checks and findUnique.
register(p, username, password) ==
  /\ registering[p] = RegIdle
  /\ UNCHANGED <<gadgets, inflight, users>>
  /\ registering' =
       IF registerFindResponse(users, username, password) # None
       THEN registering
       ELSE [registering EXCEPT ![p] =
               [op |-> "createUser", username |-> username[1],
                hashPassword |-> hashSync(password[1])]]

\* The insert of createUser and the answer of register.
createUser(p) ==
  /\ registering[p].op = "createUser"
  /\ registering' = [registering EXCEPT ![p] = RegIdle]
  /\ users' = InsertUser(users, registering[p].username,
                         registering[p].hashPassword)[1]
  /\ UNCHANGED <<gadgets, inflight>>

NextRegister ==
  \/ \E p \in Procs, n \in OptionalUsernames, w \in OptionalPasswords :
       register(p, n, w)
  \/ \E p \in Procs : createUser(p)

SpecRegister == Init /\ [][NextRegister]_vars

\* C27: no two users ever have the same username, whatever the interleaving
\* of concurrent registrations; a registration for a username that is taken
\* is answered with an error, at its findUnique or, when the username was
\* taken in between, at its insert, and leaves the table of users, hence the
\* existing user, exactly as it was.
C27_UsernamesUnique ==
  /\ [](\A j, k \in DOMAIN users :
          users[j].username = users[k].username => j = k)
  /\ [](\A n \in Usernames, w \in Passwords :
          (\E k \in DOMAIN users : users[k].username = n)
            => /\ registerFindResponse(users, Some(n), Some(w)) # None
               /\ registerFindResponse(users, Some(n), Some(w))[1].status = 500
               /\ registerCreateResponse(users, n, hashSync(w)).status = 500
               /\ InsertUser(users, n, hashSync(w))[1] = users)
  /\ [][\A p \in Procs :
          /\ (registering[p] = RegIdle /\ registering'[p] # RegIdle)
               => /\ users' = users
                  /\ ~(\E k \in DOMAIN users :
                         users[k].username = registering'[p].username)
          /\ (registering[p].op = "createUser" /\ createUser(p))
               => IF \E k \in DOMAIN users :
                       users[k].username = registering[p].username
                  THEN users' = users
                  ELSE /\ DOMAIN users' = DOMAIN users \cup {Cardinality(DOMAIN users) + 1}
                       /\ \A k \in DOMAIN users : users'[k] = users[k]]_vars

\* A user exists while a concurrent registration for the same username,
\* with another password, has passed its findUnique and is about to insert.
C27_Witness ==
  \E p \in Procs, k \in DOMAIN users :
    /\ registering[p].op = "createUser"
    /\ registering[p].username = users[k].username
    /\ registering[p].hashPassword # users[k].hashPassword

====
